---- MODULE Spec2Model ----
(***************************************************************************)
(* A model of benchmark_plot.py: the two line matchers, the CPU-prefix     *)
(* helper, parse_file and the grid fill of the main section.               *)
(*                                                                         *)
(* Text is a sequence of characters.  A character is a string: itself for  *)
(* printable ASCII and for \t, \n, \f, \r, and "U+" with the four to six    *)
(* hexadecimal digits of its code point for every other one ("U+00A0").    *)
(*                                                                         *)
(* A Python int is an integer.  A Python float is [nan, inf, neg, m, e]:    *)
(* nan, inf, or the double m * 2^e, m a natural number of any size.        *)
(***************************************************************************)
EXTENDS Integers, Sequences, FiniteSets, TLC

VARIABLES
    pc,                         \* position of the running code
    arg,                        \* the argument of the function under call
    ret,                        \* what the call returned or raised
    log_file,                   \* the lines of the log file, as readlines() gives them
    lines,                      \* parse_file: the stripped lines
    idx,                        \* parse_file: lines consumed by the for loop
    current_block_thread_size,  \* parse_file: the open header, or None
    current_runtimes,           \* parse_file: samples of the open group
    results,                    \* the Group Records
    runtimes,                   \* main: the grid
    done,                       \* main: records consumed by the fill loop
    stdout                      \* main: the tuples printed by the fill loop

vars == <<pc, arg, ret, log_file, lines, idx, current_block_thread_size,
          current_runtimes, results, runtimes, done, stdout>>

-----------------------------------------------------------------------------
(* Characters                                                              *)

Digits == <<"0", "1", "2", "3", "4", "5", "6", "7", "8", "9">>

\* [0-9]
IsDigit(c) == \E d \in 1..10 : Digits[d] = c

\* The decimal digits of Unicode 14.0, the characters \d matches in a str
\* pattern and int() and float() read: one row per script, the digits 0 to 9.
DecimalRows ==
    <<<<"0", "1", "2", "3", "4", "5", "6", "7", "8", "9">>,
      <<"U+0660", "U+0661", "U+0662", "U+0663", "U+0664", "U+0665", "U+0666", "U+0667", "U+0668", "U+0669">>,
      <<"U+06F0", "U+06F1", "U+06F2", "U+06F3", "U+06F4", "U+06F5", "U+06F6", "U+06F7", "U+06F8", "U+06F9">>,
      <<"U+07C0", "U+07C1", "U+07C2", "U+07C3", "U+07C4", "U+07C5", "U+07C6", "U+07C7", "U+07C8", "U+07C9">>,
      <<"U+0966", "U+0967", "U+0968", "U+0969", "U+096A", "U+096B", "U+096C", "U+096D", "U+096E", "U+096F">>,
      <<"U+09E6", "U+09E7", "U+09E8", "U+09E9", "U+09EA", "U+09EB", "U+09EC", "U+09ED", "U+09EE", "U+09EF">>,
      <<"U+0A66", "U+0A67", "U+0A68", "U+0A69", "U+0A6A", "U+0A6B", "U+0A6C", "U+0A6D", "U+0A6E", "U+0A6F">>,
      <<"U+0AE6", "U+0AE7", "U+0AE8", "U+0AE9", "U+0AEA", "U+0AEB", "U+0AEC", "U+0AED", "U+0AEE", "U+0AEF">>,
      <<"U+0B66", "U+0B67", "U+0B68", "U+0B69", "U+0B6A", "U+0B6B", "U+0B6C", "U+0B6D", "U+0B6E", "U+0B6F">>,
      <<"U+0BE6", "U+0BE7", "U+0BE8", "U+0BE9", "U+0BEA", "U+0BEB", "U+0BEC", "U+0BED", "U+0BEE", "U+0BEF">>,
      <<"U+0C66", "U+0C67", "U+0C68", "U+0C69", "U+0C6A", "U+0C6B", "U+0C6C", "U+0C6D", "U+0C6E", "U+0C6F">>,
      <<"U+0CE6", "U+0CE7", "U+0CE8", "U+0CE9", "U+0CEA", "U+0CEB", "U+0CEC", "U+0CED", "U+0CEE", "U+0CEF">>,
      <<"U+0D66", "U+0D67", "U+0D68", "U+0D69", "U+0D6A", "U+0D6B", "U+0D6C", "U+0D6D", "U+0D6E", "U+0D6F">>,
      <<"U+0DE6", "U+0DE7", "U+0DE8", "U+0DE9", "U+0DEA", "U+0DEB", "U+0DEC", "U+0DED", "U+0DEE", "U+0DEF">>,
      <<"U+0E50", "U+0E51", "U+0E52", "U+0E53", "U+0E54", "U+0E55", "U+0E56", "U+0E57", "U+0E58", "U+0E59">>,
      <<"U+0ED0", "U+0ED1", "U+0ED2", "U+0ED3", "U+0ED4", "U+0ED5", "U+0ED6", "U+0ED7", "U+0ED8", "U+0ED9">>,
      <<"U+0F20", "U+0F21", "U+0F22", "U+0F23", "U+0F24", "U+0F25", "U+0F26", "U+0F27", "U+0F28", "U+0F29">>,
      <<"U+1040", "U+1041", "U+1042", "U+1043", "U+1044", "U+1045", "U+1046", "U+1047", "U+1048", "U+1049">>,
      <<"U+1090", "U+1091", "U+1092", "U+1093", "U+1094", "U+1095", "U+1096", "U+1097", "U+1098", "U+1099">>,
      <<"U+17E0", "U+17E1", "U+17E2", "U+17E3", "U+17E4", "U+17E5", "U+17E6", "U+17E7", "U+17E8", "U+17E9">>,
      <<"U+1810", "U+1811", "U+1812", "U+1813", "U+1814", "U+1815", "U+1816", "U+1817", "U+1818", "U+1819">>,
      <<"U+1946", "U+1947", "U+1948", "U+1949", "U+194A", "U+194B", "U+194C", "U+194D", "U+194E", "U+194F">>,
      <<"U+19D0", "U+19D1", "U+19D2", "U+19D3", "U+19D4", "U+19D5", "U+19D6", "U+19D7", "U+19D8", "U+19D9">>,
      <<"U+1A80", "U+1A81", "U+1A82", "U+1A83", "U+1A84", "U+1A85", "U+1A86", "U+1A87", "U+1A88", "U+1A89">>,
      <<"U+1A90", "U+1A91", "U+1A92", "U+1A93", "U+1A94", "U+1A95", "U+1A96", "U+1A97", "U+1A98", "U+1A99">>,
      <<"U+1B50", "U+1B51", "U+1B52", "U+1B53", "U+1B54", "U+1B55", "U+1B56", "U+1B57", "U+1B58", "U+1B59">>,
      <<"U+1BB0", "U+1BB1", "U+1BB2", "U+1BB3", "U+1BB4", "U+1BB5", "U+1BB6", "U+1BB7", "U+1BB8", "U+1BB9">>,
      <<"U+1C40", "U+1C41", "U+1C42", "U+1C43", "U+1C44", "U+1C45", "U+1C46", "U+1C47", "U+1C48", "U+1C49">>,
      <<"U+1C50", "U+1C51", "U+1C52", "U+1C53", "U+1C54", "U+1C55", "U+1C56", "U+1C57", "U+1C58", "U+1C59">>,
      <<"U+A620", "U+A621", "U+A622", "U+A623", "U+A624", "U+A625", "U+A626", "U+A627", "U+A628", "U+A629">>,
      <<"U+A8D0", "U+A8D1", "U+A8D2", "U+A8D3", "U+A8D4", "U+A8D5", "U+A8D6", "U+A8D7", "U+A8D8", "U+A8D9">>,
      <<"U+A900", "U+A901", "U+A902", "U+A903", "U+A904", "U+A905", "U+A906", "U+A907", "U+A908", "U+A909">>,
      <<"U+A9D0", "U+A9D1", "U+A9D2", "U+A9D3", "U+A9D4", "U+A9D5", "U+A9D6", "U+A9D7", "U+A9D8", "U+A9D9">>,
      <<"U+A9F0", "U+A9F1", "U+A9F2", "U+A9F3", "U+A9F4", "U+A9F5", "U+A9F6", "U+A9F7", "U+A9F8", "U+A9F9">>,
      <<"U+AA50", "U+AA51", "U+AA52", "U+AA53", "U+AA54", "U+AA55", "U+AA56", "U+AA57", "U+AA58", "U+AA59">>,
      <<"U+ABF0", "U+ABF1", "U+ABF2", "U+ABF3", "U+ABF4", "U+ABF5", "U+ABF6", "U+ABF7", "U+ABF8", "U+ABF9">>,
      <<"U+FF10", "U+FF11", "U+FF12", "U+FF13", "U+FF14", "U+FF15", "U+FF16", "U+FF17", "U+FF18", "U+FF19">>,
      <<"U+104A0", "U+104A1", "U+104A2", "U+104A3", "U+104A4", "U+104A5", "U+104A6", "U+104A7", "U+104A8", "U+104A9">>,
      <<"U+10D30", "U+10D31", "U+10D32", "U+10D33", "U+10D34", "U+10D35", "U+10D36", "U+10D37", "U+10D38", "U+10D39">>,
      <<"U+11066", "U+11067", "U+11068", "U+11069", "U+1106A", "U+1106B", "U+1106C", "U+1106D", "U+1106E", "U+1106F">>,
      <<"U+110F0", "U+110F1", "U+110F2", "U+110F3", "U+110F4", "U+110F5", "U+110F6", "U+110F7", "U+110F8", "U+110F9">>,
      <<"U+11136", "U+11137", "U+11138", "U+11139", "U+1113A", "U+1113B", "U+1113C", "U+1113D", "U+1113E", "U+1113F">>,
      <<"U+111D0", "U+111D1", "U+111D2", "U+111D3", "U+111D4", "U+111D5", "U+111D6", "U+111D7", "U+111D8", "U+111D9">>,
      <<"U+112F0", "U+112F1", "U+112F2", "U+112F3", "U+112F4", "U+112F5", "U+112F6", "U+112F7", "U+112F8", "U+112F9">>,
      <<"U+11450", "U+11451", "U+11452", "U+11453", "U+11454", "U+11455", "U+11456", "U+11457", "U+11458", "U+11459">>,
      <<"U+114D0", "U+114D1", "U+114D2", "U+114D3", "U+114D4", "U+114D5", "U+114D6", "U+114D7", "U+114D8", "U+114D9">>,
      <<"U+11650", "U+11651", "U+11652", "U+11653", "U+11654", "U+11655", "U+11656", "U+11657", "U+11658", "U+11659">>,
      <<"U+116C0", "U+116C1", "U+116C2", "U+116C3", "U+116C4", "U+116C5", "U+116C6", "U+116C7", "U+116C8", "U+116C9">>,
      <<"U+11730", "U+11731", "U+11732", "U+11733", "U+11734", "U+11735", "U+11736", "U+11737", "U+11738", "U+11739">>,
      <<"U+118E0", "U+118E1", "U+118E2", "U+118E3", "U+118E4", "U+118E5", "U+118E6", "U+118E7", "U+118E8", "U+118E9">>,
      <<"U+11950", "U+11951", "U+11952", "U+11953", "U+11954", "U+11955", "U+11956", "U+11957", "U+11958", "U+11959">>,
      <<"U+11C50", "U+11C51", "U+11C52", "U+11C53", "U+11C54", "U+11C55", "U+11C56", "U+11C57", "U+11C58", "U+11C59">>,
      <<"U+11D50", "U+11D51", "U+11D52", "U+11D53", "U+11D54", "U+11D55", "U+11D56", "U+11D57", "U+11D58", "U+11D59">>,
      <<"U+11DA0", "U+11DA1", "U+11DA2", "U+11DA3", "U+11DA4", "U+11DA5", "U+11DA6", "U+11DA7", "U+11DA8", "U+11DA9">>,
      <<"U+16A60", "U+16A61", "U+16A62", "U+16A63", "U+16A64", "U+16A65", "U+16A66", "U+16A67", "U+16A68", "U+16A69">>,
      <<"U+16AC0", "U+16AC1", "U+16AC2", "U+16AC3", "U+16AC4", "U+16AC5", "U+16AC6", "U+16AC7", "U+16AC8", "U+16AC9">>,
      <<"U+16B50", "U+16B51", "U+16B52", "U+16B53", "U+16B54", "U+16B55", "U+16B56", "U+16B57", "U+16B58", "U+16B59">>,
      <<"U+1D7CE", "U+1D7CF", "U+1D7D0", "U+1D7D1", "U+1D7D2", "U+1D7D3", "U+1D7D4", "U+1D7D5", "U+1D7D6", "U+1D7D7">>,
      <<"U+1D7D8", "U+1D7D9", "U+1D7DA", "U+1D7DB", "U+1D7DC", "U+1D7DD", "U+1D7DE", "U+1D7DF", "U+1D7E0", "U+1D7E1">>,
      <<"U+1D7E2", "U+1D7E3", "U+1D7E4", "U+1D7E5", "U+1D7E6", "U+1D7E7", "U+1D7E8", "U+1D7E9", "U+1D7EA", "U+1D7EB">>,
      <<"U+1D7EC", "U+1D7ED", "U+1D7EE", "U+1D7EF", "U+1D7F0", "U+1D7F1", "U+1D7F2", "U+1D7F3", "U+1D7F4", "U+1D7F5">>,
      <<"U+1D7F6", "U+1D7F7", "U+1D7F8", "U+1D7F9", "U+1D7FA", "U+1D7FB", "U+1D7FC", "U+1D7FD", "U+1D7FE", "U+1D7FF">>,
      <<"U+1E140", "U+1E141", "U+1E142", "U+1E143", "U+1E144", "U+1E145", "U+1E146", "U+1E147", "U+1E148", "U+1E149">>,
      <<"U+1E2F0", "U+1E2F1", "U+1E2F2", "U+1E2F3", "U+1E2F4", "U+1E2F5", "U+1E2F6", "U+1E2F7", "U+1E2F8", "U+1E2F9">>,
      <<"U+1E950", "U+1E951", "U+1E952", "U+1E953", "U+1E954", "U+1E955", "U+1E956", "U+1E957", "U+1E958", "U+1E959">>,
      <<"U+1FBF0", "U+1FBF1", "U+1FBF2", "U+1FBF3", "U+1FBF4", "U+1FBF5", "U+1FBF6", "U+1FBF7", "U+1FBF8", "U+1FBF9">>>>

Decimals == {DecimalRows[r][d] : r \in 1..Len(DecimalRows), d \in 1..10}

\* \d
IsDecimal(c) == c \in Decimals

\* The value int() and float() give a decimal digit.
DigitValue(c) ==
    IF IsDigit(c) THEN (CHOOSE d \in 1..10 : Digits[d] = c) - 1
    ELSE (CHOOSE d \in 1..10 : \E r \in 1..Len(DecimalRows) : DecimalRows[r][d] = c) - 1

\* The characters str.strip() removes: those str.isspace() holds of.
Whitespace ==
    {"\t", "\n", "U+000B", "\f", "\r", "U+001C", "U+001D", "U+001E",
     "U+001F", " ", "U+0085", "U+00A0", "U+1680", "U+2000", "U+2001", "U+2002",
     "U+2003", "U+2004", "U+2005", "U+2006", "U+2007", "U+2008", "U+2009", "U+200A",
     "U+2028", "U+2029", "U+202F", "U+205F", "U+3000"}

IsSpace(c) == c \in Whitespace

\* A character class of a pattern: "any" is '.', "digit" is [0-9], "decimal" is
\* \d, "space" is the literal blank.
InClass(cls, c) ==
    CASE cls = "any"     -> c # "\n"
      [] cls = "digit"   -> IsDigit(c)
      [] cls = "decimal" -> IsDecimal(c)
      [] cls = "space"   -> c = " "

-----------------------------------------------------------------------------
(* Python's re.match: a backtracking matcher anchored at the start of the  *)
(* text.  A pattern is a sequence of nodes; the first way of matching in   *)
(* the order a greedy backtracking search tries them is the match.         *)

Lit(s)    == [t |-> "lit", s |-> s]
Star(cls) == [t |-> "rep", c |-> cls, min |-> 0]
Plus(cls) == [t |-> "rep", c |-> cls, min |-> 1]
Open(g)   == [t |-> "open", g |-> g]
Close(g)  == [t |-> "close", g |-> g]
Opt(r)    == [t |-> "opt", r |-> r]
Bol       == [t |-> "bol"]
Eol       == [t |-> "eol"]

NoCaps == [g \in 1..2 |-> <<0, 0>>]

NoMatch == [ok |-> FALSE, caps |-> NoCaps]

\* The number of characters of class cls that s holds from position pos on:
\* up to the first place that holds none.
RunLen(cls, s, pos) ==
    LET stop == CHOOSE j \in pos..(Len(s) + 1) :
                    /\ j = Len(s) + 1 \/ ~InClass(cls, s[j])
                    /\ \A i \in pos..(j - 1) : InClass(cls, s[i])
    IN  stop - pos

RECURSIVE MatchAt(_, _, _, _)
RECURSIVE TryRep(_, _, _, _, _, _)

\* A greedy repetition of lo..hi characters: the search tries the longest
\* first and backs off one character at a time, so the match is the first
\* success from hi down to lo (the upper half of the range before the lower).
TryRep(rest, s, pos, lo, hi, caps) ==
    IF lo > hi THEN NoMatch
    ELSE IF lo = hi THEN MatchAt(rest, s, pos + lo, caps)
    ELSE LET mid == (lo + hi + 1) \div 2
             m   == TryRep(rest, s, pos, mid, hi, caps)
         IN  IF m.ok THEN m ELSE TryRep(rest, s, pos, lo, mid - 1, caps)

MatchAt(re, s, pos, caps) ==
    IF re = <<>> THEN [ok |-> TRUE, caps |-> caps]
    ELSE
    LET node == Head(re)
        rest == Tail(re)
    IN  CASE node.t = "lit" ->
               IF /\ pos + Len(node.s) - 1 <= Len(s)
                  /\ SubSeq(s, pos, pos + Len(node.s) - 1) = node.s
               THEN MatchAt(rest, s, pos + Len(node.s), caps)
               ELSE NoMatch
          [] node.t = "rep" ->
               TryRep(rest, s, pos, node.min, RunLen(node.c, s, pos), caps)
          [] node.t = "open" ->
               MatchAt(rest, s, pos, [caps EXCEPT ![node.g] = <<pos, pos>>])
          [] node.t = "close" ->
               MatchAt(rest, s, pos, [caps EXCEPT ![node.g][2] = pos])
          [] node.t = "opt" ->
               LET m == MatchAt(node.r \o rest, s, pos, caps)
               IN  IF m.ok THEN m ELSE MatchAt(rest, s, pos, caps)
          [] node.t = "bol" ->
               IF pos = 1 THEN MatchAt(rest, s, pos, caps) ELSE NoMatch
          [] node.t = "eol" ->
               IF pos = Len(s) + 1 \/ (pos = Len(s) /\ s[pos] = "\n")
               THEN MatchAt(rest, s, pos, caps)
               ELSE NoMatch

ReMatch(re, s) == MatchAt(re, s, 1, NoCaps)

Group(m, s, g) == SubSeq(s, m.caps[g][1], m.caps[g][2] - 1)

-----------------------------------------------------------------------------
(* int(), float() and float arithmetic                                     *)

None == [kind |-> "None"]

Raise(exc, what) == [kind |-> "raise", exc |-> exc, what |-> what]

\* sys.get_int_max_str_digits() of CPython 3.11, the default.
int_max_str_digits == 4300

\* The place of the first digit of s that is no zero, or Len(s) + 1.
FirstNonZero(s) ==
    CHOOSE i \in 1..(Len(s) + 1) :
        /\ i = Len(s) + 1 \/ DigitValue(s[i]) # 0
        /\ \A j \in 1..(i - 1) : DigitValue(s[j]) = 0

RECURSIVE Decimal(_)
Decimal(s) ==
    IF s = <<>> THEN 0
    ELSE 10 * Decimal(SubSeq(s, 1, Len(s) - 1)) + DigitValue(s[Len(s)])

\* The number a string of digits denotes: that of its digits from the first
\* that is no zero on.
IntValue(s) == Decimal(SubSeq(s, FirstNonZero(s), Len(s)))

\* int(s) of a string of digits: ValueError when s has more digits than the
\* limit of the conversion.
IntOf(s) ==
    IF Len(s) > int_max_str_digits THEN Raise("ValueError", Len(s))
    ELSE [kind |-> "int", v |-> IntValue(s)]

-----------------------------------------------------------------------------
(* Numbers of any size.  A natural number is the sequence of its limbs, its *)
(* digits in base 2^15, the least first and the last not 0; <<>> is 0.      *)

LimbBits == 15

Base == 32768

RECURSIVE Pow(_, _)
Pow(b, e) == IF e = 0 THEN 1 ELSE b * Pow(b, e - 1)

Min(a, b) == IF a < b THEN a ELSE b

Max(a, b) == IF a < b THEN b ELSE a

Limb(a, i) == IF i <= Len(a) THEN a[i] ELSE 0

\* a without the zero limbs at its top.
Trim(a) ==
    SubSeq(a, 1, CHOOSE i \in 0..Len(a) :
                     /\ i = 0 \/ a[i] # 0
                     /\ \A j \in (i + 1)..Len(a) : a[j] = 0)

RECURSIVE Limbs(_)
\* The limbs of the integer n >= 0.
Limbs(n) == IF n = 0 THEN <<>> ELSE <<n % Base>> \o Limbs(n \div Base)

\* a < b
Less(a, b) ==
    IF Len(a) # Len(b) THEN Len(a) < Len(b)
    ELSE \E i \in 1..Len(a) : a[i] < b[i] /\ \A j \in (i + 1)..Len(a) : a[j] = b[j]

RECURSIVE AddBlock(_, _, _, _, _)
\* The limbs lo..hi of a + b, given the carry c into limb lo, and the carry
\* out of limb hi: those of the lower half of the block, then those of the
\* upper half.
AddBlock(a, b, c, lo, hi) ==
    IF lo = hi
    THEN LET s == Limb(a, lo) + Limb(b, lo) + c
         IN  [v |-> <<s % Base>>, c |-> s \div Base]
    ELSE LET mid  == (lo + hi) \div 2
             low  == AddBlock(a, b, c, lo, mid)
             high == AddBlock(a, b, low.c, mid + 1, hi)
         IN  [v |-> low.v \o high.v, c |-> high.c]

\* a + b
Add(a, b) ==
    IF a = <<>> THEN b
    ELSE IF b = <<>> THEN a
    ELSE LET s == AddBlock(a, b, 0, 1, Max(Len(a), Len(b)))
         IN  s.v \o Limbs(s.c)

RECURSIVE SubBlock(_, _, _, _, _)
\* The limbs lo..hi of a - b, given the borrow c from limb lo, and the borrow
\* from the limb after hi.
SubBlock(a, b, c, lo, hi) ==
    IF lo = hi
    THEN LET s == Base + a[lo] - Limb(b, lo) - c
         IN  [v |-> <<s % Base>>, c |-> 1 - s \div Base]
    ELSE LET mid  == (lo + hi) \div 2
             low  == SubBlock(a, b, c, lo, mid)
             high == SubBlock(a, b, low.c, mid + 1, hi)
         IN  [v |-> low.v \o high.v, c |-> high.c]

\* a - b, for a >= b
Sub(a, b) == IF a = <<>> THEN <<>> ELSE Trim(SubBlock(a, b, 0, 1, Len(a)).v)

RECURSIVE MulBlock(_, _, _, _, _)
\* The limbs lo..hi of a * k, given the carry c into limb lo, and the carry out
\* of limb hi.
MulBlock(a, k, c, lo, hi) ==
    IF lo = hi
    THEN LET s == a[lo] * k + c
         IN  [v |-> <<s % Base>>, c |-> s \div Base]
    ELSE LET mid  == (lo + hi) \div 2
             low  == MulBlock(a, k, c, lo, mid)
             high == MulBlock(a, k, low.c, mid + 1, hi)
         IN  [v |-> low.v \o high.v, c |-> high.c]

\* a * k + c, for integers k and c below the base
MulAdd(a, k, c) ==
    IF a = <<>> \/ k = 0 THEN Limbs(c)
    ELSE LET s == MulBlock(a, k, c, 1, Len(a))
         IN  s.v \o Limbs(s.c)

\* a * Base^n
ShiftLimbs(a, n) == IF a = <<>> THEN <<>> ELSE [i \in 1..n |-> 0] \o a

RECURSIVE MulRange(_, _, _, _)
\* a times the limbs lo..hi of b.
MulRange(a, b, lo, hi) ==
    IF lo = hi THEN MulAdd(a, b[lo], 0)
    ELSE LET mid == (lo + hi) \div 2
         IN  Add(MulRange(a, b, lo, mid),
                 ShiftLimbs(MulRange(a, b, mid + 1, hi), mid + 1 - lo))

\* a * b
Mul(a, b) == IF a = <<>> \/ b = <<>> THEN <<>> ELSE MulRange(a, b, 1, Len(b))

RECURSIVE PowNat(_, _)
\* b^e as a natural number, b below the base: the square of b^(e \div 2), times
\* b when e is odd.
PowNat(b, e) ==
    IF e = 0 THEN <<1>>
    ELSE LET h == PowNat(b, e \div 2)
         IN  IF e % 2 = 0 THEN Mul(h, h) ELSE MulAdd(Mul(h, h), b, 0)

RECURSIVE DivBlock(_, _, _, _, _)
\* The limbs lo..hi of the quotient of a by k, given the remainder r of the
\* limbs above hi, and the remainder of the limbs from lo up: those of the
\* upper half of the block, then those of the lower half.
DivBlock(a, k, r, lo, hi) ==
    IF lo = hi
    THEN LET s == r * Base + a[lo]
         IN  [v |-> <<s \div k>>, r |-> s % k]
    ELSE LET mid  == (lo + hi) \div 2
             high == DivBlock(a, k, r, mid + 1, hi)
             low  == DivBlock(a, k, high.r, lo, mid)
         IN  [v |-> low.v \o high.v, r |-> low.r]

\* The quotient and the remainder of a by an integer k, 0 < k <= the base.
DivSmall(a, k) ==
    IF a = <<>> THEN [q |-> <<>>, r |-> <<>>]
    ELSE LET h == DivBlock(a, k, 0, 1, Len(a))
         IN  [q |-> Trim(h.v), r |-> Limbs(h.r)]

\* a * 2^n
Shl(a, n) == ShiftLimbs(MulAdd(a, Pow(2, n % LimbBits), 0), n \div LimbBits)

\* a \div 2^n
Shr(a, n) ==
    DivSmall(SubSeq(a, n \div LimbBits + 1, Len(a)), Pow(2, n % LimbBits)).q

\* Bit i of a, bit 0 the least.
Bit(a, i) == (Limb(a, i \div LimbBits + 1) \div Pow(2, i % LimbBits)) % 2

\* The d lowest bits of a are 0.
LowZero(a, d) ==
    /\ \A i \in 1..Min(d \div LimbBits, Len(a)) : a[i] = 0
    /\ Limb(a, d \div LimbBits + 1) % Pow(2, d % LimbBits) = 0

RECURSIVE Bits(_)
\* The number of bits of the integer n >= 0.
Bits(n) == IF n = 0 THEN 0 ELSE 1 + Bits(n \div 2)

\* The number of bits of a.
BitLen(a) == IF a = <<>> THEN 0 ELSE LimbBits * (Len(a) - 1) + Bits(a[Len(a)])

\* The number of zero bits at the low end of a, a not 0.
TrailingZeros(a) ==
    LET i == CHOOSE j \in 1..Len(a) : a[j] # 0 /\ \A k \in 1..(j - 1) : a[k] = 0
        z == CHOOSE b \in 0..(LimbBits - 1) :
                 (a[i] \div Pow(2, b)) % 2 = 1 /\ a[i] % Pow(2, b) = 0
    IN  LimbBits * (i - 1) + z

RECURSIVE DivBits(_, _, _, _)
\* The bits lo..hi of the quotient of n by t, for n < t * 2^(hi + 1), and the
\* remainder: bit i is 1 when t * 2^i is not over what the bits above it
\* leave of n.  The upper half of the bits, then the lower half.
DivBits(n, t, lo, hi) ==
    IF lo = hi
    THEN LET s == Shl(t, lo)
         IN  IF Less(n, s) THEN [q |-> <<>>, r |-> n]
             ELSE [q |-> Shl(<<1>>, lo), r |-> Sub(n, s)]
    ELSE LET mid  == (lo + hi) \div 2
             high == DivBits(n, t, mid + 1, hi)
             low  == DivBits(high.r, t, lo, mid)
         IN  [q |-> Add(high.q, low.q), r |-> low.r]

\* The quotient and the remainder of n by t, t not 0.
DivMod(n, t) ==
    IF Len(t) = 1 THEN DivSmall(n, t[1])
    ELSE IF Less(n, t) THEN [q |-> <<>>, r |-> n]
    ELSE DivBits(n, t, 0, BitLen(n) - BitLen(t))

\* q / 2^d to the nearest integer, a half to the even one, for the number
\* q + f where sticky tells that the fraction f is not 0.
RoundShr(q, sticky, d) ==
    IF d = 0 THEN q
    ELSE LET floor == Shr(q, d)
             half  == Bit(q, d - 1) = 1
             more  == sticky \/ ~LowZero(q, d - 1)
         IN  IF half /\ (more \/ Bit(floor, 0) = 1) THEN MulAdd(floor, 1, 1) ELSE floor

-----------------------------------------------------------------------------
(* Floats.  A float is nan, inf or a finite double: the number m * 2^e with *)
(* the natural number m odd (or m 0 and e 0), negative when neg.  A double  *)
(* has at most 53 bits in m, e >= -1074 and a value below 2^1024.           *)

NaN == [nan |-> TRUE, inf |-> FALSE, neg |-> FALSE, m |-> <<>>, e |-> 0]

Inf == [nan |-> FALSE, inf |-> TRUE, neg |-> FALSE, m |-> <<>>, e |-> 0]

\* 0.0
Zero == [nan |-> FALSE, inf |-> FALSE, neg |-> FALSE, m |-> <<>>, e |-> 0]

\* The number m * 2^e, m and e as they come.
Dyadic(m, e) ==
    IF m = <<>> THEN Zero
    ELSE LET z == TrailingZeros(m)
         IN  [nan |-> FALSE, inf |-> FALSE, neg |-> FALSE, m |-> Shr(m, z), e |-> e + z]

\* The double of an integer n with 0 <= n < 2^31.
Float(n) == Dyadic(Limbs(n), 0)

IsZero(x) == ~x.nan /\ ~x.inf /\ x.m = <<>>

MantissaBits == 53

MinExponent == -1074

MaxBits == 1024

\* The double nearest (q + f) * 2^u, where sticky tells that the fraction f is
\* not 0 and q has at least 55 bits or u is MinExponent - 2: the bits of q below
\* the 53rd, or below 2^-1074, are rounded away, a half to the even double;
\* inf from 2^1024 - 2^970 on.
Nearest(q, sticky, u) ==
    LET e == Max(u + BitLen(q) - MantissaBits, MinExponent)
        m == RoundShr(q, sticky, e - u)
    IN  IF BitLen(m) + e > MaxBits THEN Inf ELSE Dyadic(m, e)

\* The double nearest (n / d) * 2^x, d not 0: n and d are scaled by a power of 2
\* for a quotient of 55 or 56 bits, or one in units of 2^(MinExponent - 2).
Ratio(n, d, x) ==
    IF n = <<>> THEN Zero
    ELSE
    LET k == Min(MantissaBits + 2 - BitLen(n) + BitLen(d), x - (MinExponent - 2))
        h == IF k >= 0 THEN DivMod(Shl(n, k), d) ELSE DivMod(n, Shl(d, -k))
    IN  Nearest(h.q, h.r # <<>>, x - k)

-----------------------------------------------------------------------------
(* float() and the division of floats                                       *)

\* The place of the first "." of s, or 0.
DotAt(s) ==
    IF \E i \in 1..Len(s) : s[i] = "."
    THEN CHOOSE i \in 1..Len(s) : s[i] = "." /\ \A j \in 1..(i - 1) : s[j] # "."
    ELSE 0

RECURSIVE NatOf(_)
\* The natural number a string of decimal digits denotes: that of its first
\* half, times 10 to the length of the second, plus that of the second.
NatOf(s) ==
    IF s = <<>> THEN <<>>
    ELSE IF Len(s) = 1 THEN Limbs(DigitValue(s[1]))
    ELSE LET half == Len(s) \div 2
         IN  Add(Mul(NatOf(SubSeq(s, 1, half)), PowNat(10, Len(s) - half)),
                 NatOf(SubSeq(s, half + 1, Len(s))))

\* float(s) of "nan", of "inf", of decimal digits or of decimal digits "."
\* decimal digits: the double nearest the number, which is digits / 10^f for f
\* digits after the "."; 0.0 up to 2^-1075 and inf from 2^1024 - 2^970 on.
FloatOf(s) ==
    IF s = <<"n", "a", "n">> THEN NaN
    ELSE IF s = <<"i", "n", "f">> THEN Inf
    ELSE LET d      == DotAt(s)
             whole  == IF d = 0 THEN s ELSE SubSeq(s, 1, d - 1)
             frac   == IF d = 0 THEN <<>> ELSE SubSeq(s, d + 1, Len(s))
             digits == whole \o frac
         IN  Ratio(NatOf(SubSeq(digits, FirstNonZero(digits), Len(digits))),
                   PowNat(5, Len(frac)), -Len(frac))

\* a / b on floats that are not below 0.0: ZeroDivisionError when b is 0.0,
\* else nan when one is nan and for inf / inf, inf for inf / b, 0.0 for a / inf,
\* and the double nearest the quotient of the two doubles otherwise.
TrueDiv(a, b) ==
    IF IsZero(b) THEN Raise("ZeroDivisionError", <<>>)
    ELSE [kind |-> "float",
          v |-> IF a.nan \/ b.nan \/ (a.inf /\ b.inf) THEN NaN
                ELSE IF a.inf THEN Inf
                ELSE IF b.inf THEN Zero
                ELSE Ratio(a.m, b.m, a.e - b.e)]

-----------------------------------------------------------------------------
(* The line matchers and the prefix helper                                 *)

BlockLiteral ==
    <<"#", " ", "O", "P", "E", "N", "3", "D", "_", "P", "A", "R", "F", "O", "R",
      "_", "B", "L", "O", "C", "K", ":", " ">>

ThreadLiteral ==
    <<",", " ", "O", "P", "E", "N", "3", "D", "_", "P", "A", "R", "F", "O", "R",
      "_", "T", "H", "R", "E", "A", "D", ":", " ">>

\* r"^# OPEN3D_PARFOR_BLOCK: ([0-9]+), OPEN3D_PARFOR_THREAD: ([0-9]+)"
BlockThreadPattern ==
    <<Bol, Lit(BlockLiteral), Open(1), Plus("digit"), Close(1),
      Lit(ThreadLiteral), Open(2), Plus("digit"), Close(2)>>

\* A slip in the order of the two groups.
match_block_thread_size_swapped(line) ==
    LET match == ReMatch(BlockThreadPattern, line)
        first  == IntOf(Group(match, line, 2))
        second == IntOf(Group(match, line, 1))
    IN  IF ~match.ok THEN None
        ELSE IF first.kind = "raise" THEN first
        ELSE IF second.kind = "raise" THEN second
        ELSE [kind |-> "tuple", v |-> <<first.v, second.v>>]

\* The pair (int(match.group(1)), int(match.group(2))), None when the pattern
\* does not match; the first int() that fails raises.
match_block_thread_size(line) ==
    LET match == ReMatch(BlockThreadPattern, line)
        first  == IntOf(Group(match, line, 1))
        second == IntOf(Group(match, line, 2))
    IN  IF ~match.ok THEN None
        ELSE IF first.kind = "raise" THEN first
        ELSE IF second.kind = "raise" THEN second
        ELSE [kind |-> "tuple", v |-> <<first.v, second.v>>]

\* r"^.* +(\d+(?:\.\d+)?) ms +.*ms +([0-9]+)$"
RuntimePattern ==
    <<Bol, Star("any"), Plus("space"),
      Open(1), Plus("decimal"), Opt(<<Lit(<<".">>), Plus("decimal")>>), Close(1),
      Lit(<<" ", "m", "s">>), Plus("space"), Star("any"), Lit(<<"m", "s">>),
      Plus("space"), Open(2), Plus("digit"), Close(2), Eol>>

\* A slip that returns the time without dividing it by the count.
match_runtime_undivided(line) ==
    LET match == ReMatch(RuntimePattern, line)
    IN  IF match.ok
        THEN [kind |-> "float", v |-> FloatOf(Group(match, line, 1))]
        ELSE None

match_runtime(line) ==
    LET match == ReMatch(RuntimePattern, line)
    IN  IF match.ok
        THEN TrueDiv(FloatOf(Group(match, line, 1)), FloatOf(Group(match, line, 2)))
        ELSE None

\* r"^(.*_CPU).*$"
CpuPrefixPattern ==
    <<Bol, Open(1), Star("any"), Lit(<<"_", "C", "P", "U">>), Close(1),
      Star("any"), Eol>>

\* A slip that returns the whole match, match.group(0).
extract_cpu_prefix_whole(filename) ==
    LET match == ReMatch(CpuPrefixPattern, filename)
    IN  IF match.ok
        THEN [kind |-> "str", v |-> filename]
        ELSE Raise("ValueError", filename)

extract_cpu_prefix(filename) ==
    LET match == ReMatch(CpuPrefixPattern, filename)
    IN  IF match.ok
        THEN [kind |-> "str", v |-> Group(match, filename, 1)]
        ELSE Raise("ValueError", filename)

-----------------------------------------------------------------------------
(* scipy.stats.gmean and the two-decimal formatting                        *)

\* gmean(a) = exp(mean(log(a))) of floats that are not below 0.0.  The mean of
\* no logarithm is nan, log(0.0) is -inf and log(inf) is inf: the result is nan
\* for no sample, for a nan among the samples and for a 0.0 and an inf among
\* them, else inf when a sample is inf and 0.0 when a sample is 0.0.  For
\* samples that are all finite and above 0.0 it is the double that the
\* library's log, mean and exp come to, near the geometric mean of a; which
\* double is the library's matter, and the float stays the term
\* [exp_mean_log |-> a].
gmean(a) ==
    IF a = <<>> \/ \E i \in 1..Len(a) : a[i].nan THEN NaN
    ELSE IF \E i \in 1..Len(a) : a[i].inf
    THEN (IF \E i \in 1..Len(a) : IsZero(a[i]) THEN NaN ELSE Inf)
    ELSE IF \E i \in 1..Len(a) : IsZero(a[i]) THEN Zero
    ELSE [exp_mean_log |-> a]

\* x is the term of a float that a library computes.
IsTerm(x) == "exp_mean_log" \in DOMAIN x

RECURSIVE DigitsIn(_, _)
\* The n decimal digits of the natural number h < 10^n, zeros in front: those
\* of the quotient of h by 10 to the half of n, then those of the remainder.
DigitsIn(h, n) ==
    IF n = 0 THEN <<>>
    ELSE IF n = 1 THEN <<Digits[Limb(h, 1) + 1]>>
    ELSE LET half == n \div 2
             d    == DivMod(h, PowNat(10, half))
         IN  DigitsIn(d.q, n - half) \o DigitsIn(d.r, half)

\* The decimal digits of the natural number h, none for 0.  A number of b bits
\* has at most b * 30103 \div 100000 + 1 digits, 30103 / 100000 being just
\* over the logarithm of 2 to the base 10.
DigitsOf(h) ==
    LET t == DigitsIn(h, (BitLen(h) * 30103) \div 100000 + 1)
    IN  SubSeq(t, FirstNonZero(t), Len(t))

\* "{:.2f}".format(x), x a float not below 0.0: "nan", "inf", or the digits of
\* the hundredth nearest x, with a "." before the last two; a double halfway
\* between two hundredths goes to the even one.
Format2(x) ==
    IF x.nan THEN <<"n", "a", "n">>
    ELSE IF x.inf THEN <<"i", "n", "f">>
    ELSE LET c == MulAdd(x.m, 100, 0)
             h == IF x.e >= 0 THEN Shl(c, x.e) ELSE RoundShr(c, FALSE, -x.e)
             t == DigitsOf(h)
             p == [i \in 1..(3 - Len(t)) |-> "0"] \o t
         IN  SubSeq(p, 1, Len(p) - 2) \o <<".">> \o SubSeq(p, Len(p) - 1, Len(p))

\* float("{:.2f}".format(x)); of the term of a float, the term of that.
Round2(x) ==
    IF IsTerm(x) THEN [float_format_2f |-> x]
    ELSE FloatOf(Format2(x))

-----------------------------------------------------------------------------
(* parse_file                                                              *)

RECURSIVE LStrip(_)
LStrip(s) == IF s # <<>> /\ IsSpace(Head(s)) THEN LStrip(Tail(s)) ELSE s

RECURSIVE RStrip(_)
RStrip(s) ==
    IF s # <<>> /\ IsSpace(s[Len(s)]) THEN RStrip(SubSeq(s, 1, Len(s) - 1)) ELSE s

\* str.strip()
Strip(s) == RStrip(LStrip(s))

\* The truth value an if statement gives a value: None and 0.0 are false, a
\* pair and every other float are true.
Truthy(v) ==
    CASE v.kind = "None"  -> FALSE
      [] v.kind = "tuple" -> TRUE
      [] v.kind = "float" -> ~IsZero(v.v)

GroupRecord(header, samples) ==
    [block_size |-> header.v[1], thread_size |-> header.v[2], gmean |-> gmean(samples)]

\* results = []; lines = [line.strip() for line in f.readlines()]; no header
\* and no samples yet.
ReadLines ==
    /\ pc = "parse_file"
    /\ pc' = "for line"
    /\ results' = <<>>
    /\ lines' = [i \in 1..Len(log_file) |-> Strip(log_file[i])]
    /\ idx' = 0
    /\ current_block_thread_size' = None
    /\ current_runtimes' = <<>>
    /\ UNCHANGED <<arg, ret, log_file, runtimes, done, stdout>>

\* A slip that tests the runtime before the header.
BranchRuntimeFirst(num_thread, runtime) ==
    IF Truthy(runtime) THEN "sample"
    ELSE IF Truthy(num_thread) THEN "header"
    ELSE "skip"

\* The if/elif of the loop body: which branch a line takes, given what the two
\* matchers returned for it.
Branch(num_thread, runtime) ==
    IF Truthy(num_thread) THEN "header"
    ELSE IF Truthy(runtime) THEN "sample"
    ELSE "skip"

\* One turn of the for loop: the Header Matcher runs on the line, then the
\* Runtime Matcher, then the if/elif.  An exception of a matcher leaves
\* parse_file.
ParseLine ==
    /\ pc = "for line"
    /\ idx < Len(lines)
    /\ LET line       == lines[idx + 1]
           num_thread == match_block_thread_size(line)
           runtime    == match_runtime(line)
       IN  IF num_thread.kind = "raise"
           THEN /\ pc' = "raised"
                /\ ret' = num_thread
                /\ UNCHANGED <<idx, current_block_thread_size, current_runtimes, results>>
           ELSE IF runtime.kind = "raise"
           THEN /\ pc' = "raised"
                /\ ret' = runtime
                /\ UNCHANGED <<idx, current_block_thread_size, current_runtimes, results>>
           ELSE /\ pc' = pc
                /\ ret' = ret
                /\ idx' = idx + 1
                /\ CASE Branch(num_thread, runtime) = "header" ->
                          /\ results' =
                               IF Truthy(current_block_thread_size)
                               THEN Append(results,
                                           GroupRecord(current_block_thread_size,
                                                       current_runtimes))
                               ELSE results
                          /\ current_block_thread_size' = num_thread
                          /\ current_runtimes' = <<>>
                     [] Branch(num_thread, runtime) = "sample" ->
                          /\ current_runtimes' = Append(current_runtimes, runtime.v)
                          /\ UNCHANGED <<current_block_thread_size, results>>
                     [] Branch(num_thread, runtime) = "skip" ->
                          UNCHANGED <<current_block_thread_size, current_runtimes, results>>
    /\ UNCHANGED <<arg, log_file, lines, runtimes, done, stdout>>

\* After the loop: save the last set of data and return results.
ParseEnd ==
    /\ pc = "for line"
    /\ idx = Len(lines)
    /\ pc' = "parsed"
    /\ results' =
         IF Truthy(current_block_thread_size)
         THEN Append(results, GroupRecord(current_block_thread_size, current_runtimes))
         ELSE results
    /\ UNCHANGED <<arg, ret, log_file, lines, idx, current_block_thread_size,
                   current_runtimes, runtimes, done, stdout>>

-----------------------------------------------------------------------------
(* The main section: the grid fill                                         *)

block_sizes == <<1, 2, 4, 8, 16, 32, 64, 128, 256>>

thread_sizes == <<1, 2, 4, 8, 16, 32, 64, 128, 256>>

\* A slip that takes the lookup of str.find: -1 when there is no v.
IndexOrMinusOne(list, v) ==
    IF \E i \in 1..Len(list) : list[i] = v
    THEN [kind |-> "int",
          v |-> (CHOOSE i \in 1..Len(list) :
                    list[i] = v /\ \A j \in 1..(i - 1) : list[j] # v) - 1]
    ELSE [kind |-> "int", v |-> -1]

\* list.index(v): the 0-based place of the first v, ValueError if there is none.
Index(list, v) ==
    IF \E i \in 1..Len(list) : list[i] = v
    THEN [kind |-> "int",
          v |-> (CHOOSE i \in 1..Len(list) :
                    list[i] = v /\ \A j \in 1..(i - 1) : list[j] # v) - 1]
    ELSE Raise("ValueError", v)

\* np.ones((len(block_sizes), len(thread_sizes))) * -1
Sentinel == [nan |-> FALSE, inf |-> FALSE, neg |-> TRUE, m |-> <<1>>, e |-> 0]

EmptyGrid ==
    [y \in 0..(Len(block_sizes) - 1) |-> [x \in 0..(Len(thread_sizes) - 1) |-> Sentinel]]

\* A slip that writes runtimes[x, y].
SetCellTransposed(grid, y, x, runtime) == [grid EXCEPT ![x][y] = runtime]

\* runtimes[y, x] = runtime
SetCell(grid, y, x, runtime) == [grid EXCEPT ![y][x] = runtime]

\* A slip that catches the failed lookup and goes on to the next record.
FillStepSkipping ==
    /\ pc = "for result"
    /\ done < Len(results)
    /\ LET result      == results[done + 1]
           block_size  == result.block_size
           thread_size == result.thread_size
           runtime     == Round2(result.gmean)
           y           == Index(block_sizes, block_size)
           x           == Index(thread_sizes, thread_size)
       IN  IF y.kind = "raise" \/ x.kind = "raise"
           THEN /\ done' = done + 1
                /\ UNCHANGED <<pc, ret, runtimes, stdout>>
           ELSE /\ pc' = pc /\ ret' = ret
                /\ stdout' = Append(stdout, <<block_size, thread_size, y.v, x.v>>)
                /\ runtimes' = SetCell(runtimes, y.v, x.v, runtime)
                /\ done' = done + 1
    /\ UNCHANGED <<arg, log_file, lines, idx, current_block_thread_size,
                   current_runtimes, results>>

\* One turn of the fill loop: the rounding, the two lookups, the print, the
\* write.  A failed lookup raises out of the program.
FillStep ==
    /\ pc = "for result"
    /\ done < Len(results)
    /\ LET result      == results[done + 1]
           block_size  == result.block_size
           thread_size == result.thread_size
           runtime     == Round2(result.gmean)
           y           == Index(block_sizes, block_size)
           x           == Index(thread_sizes, thread_size)
       IN  IF y.kind = "raise"
           THEN /\ pc' = "raised" /\ ret' = y
                /\ UNCHANGED <<runtimes, done, stdout>>
           ELSE IF x.kind = "raise"
           THEN /\ pc' = "raised" /\ ret' = x
                /\ UNCHANGED <<runtimes, done, stdout>>
           ELSE /\ pc' = pc /\ ret' = ret
                /\ stdout' = Append(stdout, <<block_size, thread_size, y.v, x.v>>)
                /\ runtimes' = SetCell(runtimes, y.v, x.v, runtime)
                /\ done' = done + 1
    /\ UNCHANGED <<arg, log_file, lines, idx, current_block_thread_size,
                   current_runtimes, results>>

\* The loop is over: the heatmap of the grid is drawn and shown.
Render ==
    /\ pc = "for result"
    /\ done = Len(results)
    /\ pc' = "shown"
    /\ UNCHANGED <<arg, ret, log_file, lines, idx, current_block_thread_size,
                   current_runtimes, results, runtimes, done, stdout>>

-----------------------------------------------------------------------------
(* Calls of the three pure functions                                       *)

CallMatchBlockThreadSize ==
    /\ pc = "match_block_thread_size"
    /\ LET r == match_block_thread_size(arg)
       IN  /\ pc' = IF r.kind = "raise" THEN "raised" ELSE "returned"
           /\ ret' = r
    /\ UNCHANGED <<arg, log_file, lines, idx, current_block_thread_size,
                   current_runtimes, results, runtimes, done, stdout>>

CallMatchRuntime ==
    /\ pc = "match_runtime"
    /\ LET r == match_runtime(arg)
       IN  /\ pc' = IF r.kind = "raise" THEN "raised" ELSE "returned"
           /\ ret' = r
    /\ UNCHANGED <<arg, log_file, lines, idx, current_block_thread_size,
                   current_runtimes, results, runtimes, done, stdout>>

CallExtractCpuPrefix ==
    /\ pc = "extract_cpu_prefix"
    /\ LET r == extract_cpu_prefix(arg)
       IN  /\ pc' = IF r.kind = "raise" THEN "raised" ELSE "returned"
           /\ ret' = r
    /\ UNCHANGED <<arg, log_file, lines, idx, current_block_thread_size,
                   current_runtimes, results, runtimes, done, stdout>>

-----------------------------------------------------------------------------
(* Inputs.  The integers in them stay below 2^31, the integers the model   *)
(* checker computes with, but for those past the limit of int(), which are *)
(* never computed.                                                         *)

MaxLines == 3

MaxRecords == 3

MaxHeaderFrags == 5

MaxRuntimeFrags == 4

MaxNameFrags == 4

\* n times the character c.
Run(c, n) == [i \in 1..n |-> c]

SeqsUpTo(S, n) == UNION {[1..k -> S] : k \in 0..n}

RECURSIVE Concats(_, _)
\* The texts made of at most n of the fragments F, one after the other.
Concats(F, n) ==
    IF n = 0 THEN {<<>>}
    ELSE LET shorter == Concats(F, n - 1)
         IN  shorter \cup {t \o f : t \in shorter, f \in F}

\* A header: # OPEN3D_PARFOR_BLOCK: 1, OPEN3D_PARFOR_THREAD: 2\n
HeaderLine12 ==
    <<"#", " ", "O", "P", "E", "N", "3", "D", "_", "P", "A", "R", "F", "O",
      "R", "_", "B", "L", "O", "C", "K", ":", " ", "1", ",", " ", "O", "P",
      "E", "N", "3", "D", "_", "P", "A", "R", "F", "O", "R", "_", "T", "H",
      "R", "E", "A", "D", ":", " ", "2", "\n">>

\* A header after a form feed and a no-break space, that the runtime pattern
\* matches too: \f\xa0# OPEN3D_PARFOR_BLOCK: 4, OPEN3D_PARFOR_THREAD: 8 9.0 ms 9.0 ms 3\n
HeaderLine48 ==
    <<"\f", "U+00A0", "#", " ", "O", "P", "E", "N", "3", "D", "_", "P", "A", "R",
      "F", "O", "R", "_", "B", "L", "O", "C", "K", ":", " ", "4", ",", " ",
      "O", "P", "E", "N", "3", "D", "_", "P", "A", "R", "F", "O", "R", "_",
      "T", "H", "R", "E", "A", "D", ":", " ", "8", " ", "9", ".", "0", " ",
      "m", "s", " ", "9", ".", "0", " ", "m", "s", " ", "3", "\n">>

\* A sample of 0.024999999999999998, the quotient of the doubles of 0.075 and
\* of 3, its 5 the ARABIC-INDIC DIGIT FIVE: run x 0.07\u0665 ms y 2.0 ms 3\n
RuntimeLine0025 ==
    <<"r", "u", "n", " ", "x", " ", "0", ".", "0", "7", "U+0665", " ", "m", "s", " ",
      "y", " ", "2", ".", "0", " ", "m", "s", " ", "3", "\n">>

\* A sample of 0.0: run x 0.0 ms y 2.0 ms 5\n
RuntimeLine0 ==
    <<"r", "u", "n", " ", "x", " ", "0", ".", "0", " ", "m", "s", " ", "y",
      " ", "2", ".", "0", " ", "m", "s", " ", "5", "\n">>

\* A sample below the least double, 1e-324, which is 0.0:
\* x 0.<323 zeros>1 ms ms 1\n
RuntimeLineTiny ==
    <<"x", " ", "0", ".">> \o Run("0", 323)
        \o <<"1", " ", "m", "s", " ", "m", "s", " ", "1", "\n">>

\* A header that the runtime pattern matches too, with an iteration count of 0:
\* # OPEN3D_PARFOR_BLOCK: 4, OPEN3D_PARFOR_THREAD: 8 9.0 ms 9.0 ms 0\n
HeaderLineDiv0 ==
    <<"#", " ", "O", "P", "E", "N", "3", "D", "_", "P", "A", "R", "F", "O",
      "R", "_", "B", "L", "O", "C", "K", ":", " ", "4", ",", " ", "O", "P",
      "E", "N", "3", "D", "_", "P", "A", "R", "F", "O", "R", "_", "T", "H",
      "R", "E", "A", "D", ":", " ", "8", " ", "9", ".", "0", " ", "m", "s",
      " ", "9", ".", "0", " ", "m", "s", " ", "0", "\n">>

\* An iteration count of 0: run x 5.0 ms y 2.0 ms 0\n
RuntimeLineDiv0 ==
    <<"r", "u", "n", " ", "x", " ", "5", ".", "0", " ", "m", "s", " ", "y",
      " ", "2", ".", "0", " ", "m", "s", " ", "0", "\n">>

\* Neither a header nor a sample: Running ./bench\n
OtherLine ==
    <<"R", "u", "n", "n", "i", "n", "g", " ", ".", "/", "b", "e", "n", "c",
      "h", "\n">>

\* A header with a block size of more digits than int() converts.
HeaderLineLong ==
    BlockLiteral \o Run("1", int_max_str_digits + 1) \o ThreadLiteral \o <<"2", "\n">>

LogLines ==
    {HeaderLine12, HeaderLine48, HeaderLineDiv0, RuntimeLine0025,
     RuntimeLine0, RuntimeLineDiv0, OtherLine}

\* The lines of thousands and of hundreds of characters.
LongLogLines == {HeaderLineLong, RuntimeLineTiny}

\* The logs with a long line: alone, after a line, and between two lines.
LongLogs ==
    {<<long>> : long \in LongLogLines}
    \cup {<<before, long>> : before \in LogLines, long \in LongLogLines}
    \cup {<<before, long, after>> :
              before \in LogLines, long \in LongLogLines, after \in LogLines}

\* Fragments of header lines; "U+0662" is the ARABIC-INDIC DIGIT TWO.
HeaderFrags ==
    {BlockLiteral, ThreadLiteral, <<"2">>, <<"0", "7">>, <<"x">>, <<" ">>, <<"U+0662">>}

\* Headers with a size of more digits than int() converts.
LongHeaderLines ==
    {BlockLiteral \o Run("1", int_max_str_digits + 1) \o ThreadLiteral \o <<"2">>,
     BlockLiteral \o <<"2">> \o ThreadLiteral \o Run("1", int_max_str_digits + 1),
     <<"x">> \o BlockLiteral \o Run("1", int_max_str_digits + 1) \o ThreadLiteral \o <<"2">>}

\* Fragments of runtime lines; "U+0662" and "U+0663" are the ARABIC-INDIC
\* DIGITS TWO and THREE.
RuntimeFrags ==
    {<<"x">>,
     <<" ">>,
     <<" ", "1", "U+0662", ".", "0", " ", "m", "s">>,
     <<" ", "0", ".", "3", " ", "m", "s">>,
     <<" ", "m", "s">>,
     <<" ", "3">>,
     <<" ", "0">>,
     <<"U+0663">>,
     <<"\n">>}

\* The digits of a number past the largest double.
Huge == Run("9", 309)

\* Runtime lines with numbers past the largest double, inf / inf, inf / 2 and
\* 1 / inf; with a quotient that is not the double nearest 0.075 / 3; with
\* numbers below the least double, 1e-401 and 1e-200 / 1e200; and with numbers
\* among the least doubles, 3e-324 and 1 / 1e308.
LongRuntimeLines ==
    {<<" ">> \o Huge \o <<" ", "m", "s", " ", "m", "s", " ">> \o Huge,
     <<" ">> \o Huge \o <<" ", "m", "s", " ", "m", "s", " ", "2">>,
     <<" ", "1", " ", "m", "s", " ", "m", "s", " ">> \o Huge,
     <<"x", " ", "0", ".", "0", "7", "5", " ", "m", "s", " ", "y", " ", "m", "s", " ", "3">>,
     <<" ", "0", ".">> \o Run("0", 400) \o <<"1", " ", "m", "s", " ", "m", "s", " ", "2">>,
     <<" ", "0", ".">> \o Run("0", 199) \o <<"1", " ", "m", "s", " ", "m", "s", " ", "1">>
         \o Run("0", 200),
     <<" ", "0", ".">> \o Run("0", 323) \o <<"3", " ", "m", "s", " ", "m", "s", " ", "1">>,
     <<" ", "1", " ", "m", "s", " ", "m", "s", " ", "1">> \o Run("0", 308)}

NameFrags ==
    {<<"a">>,
     <<"_", "C", "P", "U">>,
     <<"_">>,
     <<"C", "P", "U">>,
     <<".", "l", "o", "g">>,
     <<"_", "C">>,
     <<"P", "U">>,
     <<"\n">>}

\* Means of the records: of no sample, of two samples, of an inf and a number,
\* and three doubles next to the middle of two hundredths: the double nearest
\* 0.025, which is above it, 0.075 / 3, the double below that one, and 0.125.
GmeanValues ==
    {gmean(<<>>),
     gmean(<<Float(10), Float(4)>>),
     gmean(<<Inf, Float(4)>>),
     FloatOf(<<"0", ".", "0", "2", "5">>),
     TrueDiv(FloatOf(<<"0", ".", "0", "7", "5">>), Float(3)).v,
     FloatOf(<<"0", ".", "1", "2", "5">>)}

\* Headers of two cells of the grid.
GoodSizes == {<<2, 4>>, <<256, 4>>}

\* Headers with a block size that is no candidate, a thread size that is none,
\* and both.
BadSizes == {<<3, 4>>, <<2, 5>>, <<3, 5>>}

GridRecords ==
    {[block_size |-> bt[1], thread_size |-> bt[2], gmean |-> g] :
        bt \in GoodSizes, g \in GmeanValues}
    \cup {[block_size |-> bt[1], thread_size |-> bt[2], gmean |-> Float(4)] :
            bt \in BadSizes}

-----------------------------------------------------------------------------
(* Specifications                                                          *)

Pending == [kind |-> "pending"]

NoParse ==
    /\ log_file = <<>>
    /\ lines = <<>>
    /\ idx = 0
    /\ current_block_thread_size = None
    /\ current_runtimes = <<>>

NoGrid ==
    /\ runtimes = EmptyGrid
    /\ done = 0
    /\ stdout = <<>>

\* parse_file(log_file) on a log of at most MaxLines lines, or on a log with a
\* long line.
InitParse ==
    /\ pc = "parse_file"
    /\ log_file \in SeqsUpTo(LogLines, MaxLines) \cup LongLogs
    /\ arg = <<>>
    /\ ret = Pending
    /\ lines = <<>>
    /\ idx = 0
    /\ current_block_thread_size = None
    /\ current_runtimes = <<>>
    /\ results = <<>>
    /\ NoGrid

NextParse == ReadLines \/ ParseLine \/ ParseEnd

SpecParse == InitParse /\ [][NextParse]_vars

\* The main section from the grid of sentinels on, given what parse_file
\* returned.
InitGrid ==
    /\ pc = "for result"
    /\ results \in SeqsUpTo(GridRecords, MaxRecords)
    /\ arg = <<>>
    /\ ret = Pending
    /\ NoParse
    /\ NoGrid

NextGrid == FillStep \/ Render

SpecGrid == InitGrid /\ [][NextGrid]_vars

InitHeader ==
    /\ pc = "match_block_thread_size"
    /\ arg \in Concats(HeaderFrags, MaxHeaderFrags) \cup LongHeaderLines
    /\ ret = Pending
    /\ results = <<>>
    /\ NoParse
    /\ NoGrid

SpecHeader == InitHeader /\ [][CallMatchBlockThreadSize]_vars

InitRuntime ==
    /\ pc = "match_runtime"
    /\ arg \in Concats(RuntimeFrags, MaxRuntimeFrags) \cup LongRuntimeLines
    /\ ret = Pending
    /\ results = <<>>
    /\ NoParse
    /\ NoGrid

SpecRuntime == InitRuntime /\ [][CallMatchRuntime]_vars

InitPrefix ==
    /\ pc = "extract_cpu_prefix"
    /\ arg \in Concats(NameFrags, MaxNameFrags)
    /\ ret = Pending
    /\ results = <<>>
    /\ NoParse
    /\ NoGrid

SpecPrefix == InitPrefix /\ [][CallExtractCpuPrefix]_vars

-----------------------------------------------------------------------------
(* What the claims say of the three pure functions                         *)

RECURSIVE DecSum(_, _)
DecSum(s, i) ==
    IF i > Len(s) THEN 0
    ELSE DigitValue(s[i]) * Pow(10, Len(s) - i) + DecSum(s, i + 1)

\* The number a string of decimal digits denotes.
DecValue(s) == DecSum(SubSeq(s, FirstNonZero(s), Len(s)), 1)

\* The last place of the run of digits 0-9 that starts at place i of s (i - 1
\* when no digit is at place i).
DigitsEnd(s, i) ==
    CHOOSE j \in (i - 1)..Len(s) :
        /\ j = Len(s) \/ ~IsDigit(s[j + 1])
        /\ \A k \in i..j : IsDigit(s[k])

BlockLen == Len(BlockLiteral)

ThreadLen == Len(ThreadLiteral)

\* The number of digits of B and of T in a line that begins with
\* '# OPEN3D_PARFOR_BLOCK: B' and goes on with ', OPEN3D_PARFOR_THREAD: T'.
HeaderB(line) == DigitsEnd(line, BlockLen + 1) - BlockLen

HeaderT(line) ==
    LET before == BlockLen + HeaderB(line) + ThreadLen
    IN  DigitsEnd(line, before + 1) - before

\* line is '# OPEN3D_PARFOR_BLOCK: B, OPEN3D_PARFOR_THREAD: T' and then anything
\* but a digit, B and T strings of one or more digits 0-9.
IsHeader(line) ==
    /\ Len(line) > BlockLen
    /\ SubSeq(line, 1, BlockLen) = BlockLiteral
    /\ HeaderB(line) >= 1
    /\ Len(line) > BlockLen + HeaderB(line) + ThreadLen
    /\ SubSeq(line, BlockLen + HeaderB(line) + 1, BlockLen + HeaderB(line) + ThreadLen)
         = ThreadLiteral
    /\ HeaderT(line) >= 1

HeaderPair(line) ==
    LET b == HeaderB(line)
        t == HeaderT(line)
    IN  <<DecValue(SubSeq(line, BlockLen + 1, BlockLen + b)),
          DecValue(SubSeq(line, BlockLen + b + ThreadLen + 1,
                          BlockLen + b + ThreadLen + t))>>

\* C8 as stated: the Header Matcher returns exactly the integer pair (B, T) for
\* every line that begins with '# OPEN3D_PARFOR_BLOCK: B, OPEN3D_PARFOR_THREAD: T',
\* B and T digit strings, and returns no match for every other line, one with
\* text before the prefix included; it never raises.
C8_HeaderMatcherExact ==
    pc \in {"returned", "raised"} =>
        /\ pc = "returned"
        /\ IF IsHeader(arg)
           THEN ret = [kind |-> "tuple", v |-> HeaderPair(arg)]
           ELSE ret = None

\* C8, amended: for a line that begins with
\* '# OPEN3D_PARFOR_BLOCK: B, OPEN3D_PARFOR_THREAD: T', B and T the runs of digits
\* 0-9 at those places, the Header Matcher returns the integer pair (B, T) when
\* neither B nor T has more digits than int() converts, and raises a ValueError
\* for the first of the two that has more; for every other line, one with text
\* before the prefix included, it returns no match and does not raise.
C8_HeaderMatcherWithinLimit ==
    pc \in {"returned", "raised"} =>
        IF ~IsHeader(arg) THEN pc = "returned" /\ ret = None
        ELSE IF HeaderB(arg) > int_max_str_digits
        THEN pc = "raised" /\ ret = Raise("ValueError", HeaderB(arg))
        ELSE IF HeaderT(arg) > int_max_str_digits
        THEN pc = "raised" /\ ret = Raise("ValueError", HeaderT(arg))
        ELSE pc = "returned" /\ ret = [kind |-> "tuple", v |-> HeaderPair(arg)]

\* A header with a leading zero in the block size and text after the thread
\* size has been matched.
C8_Witness ==
    /\ pc = "returned"
    /\ arg = BlockLiteral \o <<"0", "7">> \o ThreadLiteral \o <<"2", "x">>
    /\ ret = [kind |-> "tuple", v |-> <<7, 2>>]

\* A text without the line break that may end it.
Body(text) ==
    IF text # <<>> /\ text[Len(text)] = "\n" THEN SubSeq(text, 1, Len(text) - 1)
    ELSE text

\* A text of one line: no line break but, maybe, one at its very end.
OneLine(text) == \A i \in 1..Len(Body(text)) : Body(text)[i] # "\n"

\* The trailing digits 0-9 of a line, the blanks before them, and the place of
\* the "ms" before those blanks (0 when the line does not end that way).
TrailDigits(line) ==
    CHOOSE d \in 0..Len(line) :
        /\ d = Len(line) \/ ~IsDigit(line[Len(line) - d])
        /\ \A i \in (Len(line) - d + 1)..Len(line) : IsDigit(line[i])

TrailBlanks(line) ==
    LET e == Len(line) - TrailDigits(line)
    IN  CHOOSE w \in 0..e :
            /\ w = e \/ line[e - w] # " "
            /\ \A i \in (e - w + 1)..e : line[i] = " "

FinalMs(line) ==
    LET m == Len(line) - TrailDigits(line) - TrailBlanks(line) - 1
    IN  IF /\ TrailDigits(line) >= 1
           /\ TrailBlanks(line) >= 1
           /\ m >= 1
           /\ line[m] = "m" /\ line[m + 1] = "s"
        THEN m
        ELSE 0

\* The last place of the run of decimal digits that starts at place i of s
\* (i - 1 when none is at place i).
DecimalsEnd(s, i) ==
    CHOOSE j \in (i - 1)..Len(s) :
        /\ j = Len(s) \/ ~IsDecimal(s[j + 1])
        /\ \A k \in i..j : IsDecimal(s[k])

\* The last place of the number (decimal digits, or decimal digits "." decimal
\* digits) that starts at place i of the line.
NumberEnd(line, i) ==
    LET a == DecimalsEnd(line, i)
    IN  IF a + 2 <= Len(line) /\ line[a + 1] = "." /\ IsDecimal(line[a + 2])
        THEN DecimalsEnd(line, a + 2)
        ELSE a

\* At place i a number starts that follows a blank and is followed by " ms", a
\* blank and, later, the final "ms".
IsTimeAt(line, i) ==
    /\ i >= 2 /\ i <= Len(line)
    /\ line[i - 1] = " "
    /\ IsDecimal(line[i])
    /\ LET j == NumberEnd(line, i)
       IN  /\ j + 4 <= Len(line)
           /\ SubSeq(line, j + 1, j + 4) = <<" ", "m", "s", " ">>
           /\ FinalMs(line) >= j + 5

Times(line) == {i \in 1..Len(line) : IsTimeAt(line, i)}

\* A line '... X ms ... ms N'.
IsRuntimeLine(line) ==
    OneLine(line) /\ FinalMs(Body(line)) # 0 /\ Times(Body(line)) # {}

\* The number that starts at place i, as a float.
NumberAt(line, i) == FloatOf(SubSeq(line, i, NumberEnd(line, i)))

\* The trailing count, as a float.
Count(line) == FloatOf(SubSeq(line, Len(line) - TrailDigits(line) + 1, Len(line)))

\* The number at place i over the trailing count, for a count that is not 0.
Quotient(line, i) == TrueDiv(NumberAt(line, i), Count(line))

FirstTime(line) == CHOOSE i \in Times(line) : \A k \in Times(line) : i <= k

LastTime(line) == CHOOSE i \in Times(line) : \A k \in Times(line) : k <= i

\* C7 as stated: on a line '... X ms ... ms N' with N nonzero the Runtime
\* Matcher returns X / N for the FIRST number X followed by "ms", and no match
\* on a line that has no such form.
C7_FirstTimeOverCount ==
    pc \in {"returned", "raised"} =>
        /\ ~IsRuntimeLine(arg) => ret = None
        /\ IsRuntimeLine(arg) /\ ~IsZero(Count(Body(arg)))
             => ret = Quotient(Body(arg), FirstTime(Body(arg)))

\* C7, amended: on a line that ends with "ms", blanks and a count N of digits
\* 0-9, and that holds before that "ms" a number X of decimal digits after a
\* blank and before " ms" and a blank, the Runtime Matcher returns
\* float(X) / float(N) for the LAST such X when N is nonzero and raises
\* ZeroDivisionError when N is zero; on every other line it returns no match.
\* The line may end with one line break and holds no other.
C7_LastTimeOverCount ==
    pc \in {"returned", "raised"} =>
        /\ ~IsRuntimeLine(arg) => pc = "returned" /\ ret = None
        /\ IsRuntimeLine(arg) /\ ~IsZero(Count(Body(arg)))
             => pc = "returned" /\ ret = Quotient(Body(arg), LastTime(Body(arg)))
        /\ IsRuntimeLine(arg) /\ IsZero(Count(Body(arg)))
             => pc = "raised" /\ ret = Raise("ZeroDivisionError", <<>>)

\* ' 1\u0662.0 ms 0.3 ms ms 3', a line with three "ms" and two numbers before
\* them, the first 12.0 with an ARABIC-INDIC DIGIT TWO, has been matched: 0.3 / 3,
\* not 12.0 / 3, and that is 0.09999999999999999, the double below 0.1.
C7_Witness ==
    /\ pc = "returned"
    /\ Cardinality(Times(arg)) = 2
    /\ FirstTime(arg) = 2
    /\ NumberAt(arg, FirstTime(arg)) = Float(12)
    /\ ret = [kind |-> "float", v |-> Dyadic(<<6553, 13107, 26214, 204>>, -56)]

\* The places where "_CPU" starts in a filename.
Markers(filename) ==
    {i \in 1..(Len(filename) - 3) :
        SubSeq(filename, i, i + 3) = <<"_", "C", "P", "U">>}

\* C9 as stated: for a filename <prefix>_CPU<suffix> extract_cpu_prefix returns
\* <prefix>_CPU, whichever "_CPU" of the filename the marker is, and raises a
\* ValueError when there is none.
C9_PrefixOfEveryMarker ==
    pc \in {"returned", "raised"} =>
        /\ \A i \in Markers(arg) : ret = [kind |-> "str", v |-> SubSeq(arg, 1, i + 3)]
        /\ Markers(arg) = {} => pc = "raised" /\ ret = Raise("ValueError", arg)

\* C9, amended: for a filename of one line (no line break but, maybe, one at its
\* very end) that holds "_CPU", extract_cpu_prefix returns the filename up to
\* and including its LAST "_CPU"; for every other filename it raises a
\* ValueError.
C9_PrefixOfLastMarker ==
    pc \in {"returned", "raised"} =>
        IF OneLine(arg) /\ Markers(arg) # {}
        THEN /\ pc = "returned"
             /\ \E i \in Markers(arg) :
                    /\ \A k \in Markers(arg) : k <= i
                    /\ ret = [kind |-> "str", v |-> SubSeq(arg, 1, i + 3)]
        ELSE pc = "raised" /\ ret = Raise("ValueError", arg)

\* 'a_CPU_CPU.log', whose suffix holds a second "_CPU", has been cut.
C9_Witness ==
    /\ pc = "returned"
    /\ arg = <<"a", "_", "C", "P", "U", "_", "C", "P", "U", ".", "l", "o", "g">>
    /\ ret = [kind |-> "str", v |-> <<"a", "_", "C", "P", "U", "_", "C", "P", "U">>]

-----------------------------------------------------------------------------
(* What the claims say of parse_file                                       *)

IsHeaderLine(line) == match_block_thread_size(line).kind = "tuple"

\* A line that is no header and on which the Runtime Matcher returns a value.
IsSampleLine(line) == ~IsHeaderLine(line) /\ match_runtime(line).kind = "float"

Headers(ls) == {i \in 1..Len(ls) : IsHeaderLine(ls[i])}

RECURSIVE SamplesIn(_, _, _)
\* What the Runtime Matcher returns on the sample lines among ls[a..b], in order.
SamplesIn(ls, a, b) ==
    IF a > b THEN <<>>
    ELSE (IF IsSampleLine(ls[a]) THEN <<match_runtime(ls[a]).v>> ELSE <<>>)
         \o SamplesIn(ls, a + 1, b)

\* The last line before the header that follows header h, or the last line.
GroupEnd(ls, h) ==
    LET later == {k \in Headers(ls) : k > h}
    IN  IF later = {} THEN Len(ls)
        ELSE (CHOOSE k \in later : \A j \in later : k <= j) - 1

\* The last header among the first n lines, or 0.
LastHeader(ls, n) ==
    LET seen == {k \in Headers(ls) : k <= n}
    IN  IF seen = {} THEN 0 ELSE CHOOSE k \in seen : \A j \in seen : j <= k

NthHeader(ls, n) ==
    CHOOSE h \in Headers(ls) : Cardinality({k \in Headers(ls) : k <= h}) = n

GroupSamples(ls, n) == SamplesIn(ls, NthHeader(ls, n) + 1, GroupEnd(ls, NthHeader(ls, n)))

ExpectedRecords(ls) ==
    [n \in 1..Cardinality(Headers(ls)) |->
        [block_size  |-> match_block_thread_size(ls[NthHeader(ls, n)]).v[1],
         thread_size |-> match_block_thread_size(ls[NthHeader(ls, n)]).v[2],
         gmean       |-> gmean(GroupSamples(ls, n))]]

\* C1: parse_file returns one Group Record per header line, in the order of the
\* headers, the i-th with the i-th header's sizes and the geometric mean of
\* exactly the runtime samples between the i-th header and the next (or the end
\* of the file); samples before the first header are in no record.
C1_OneRecordPerHeader ==
    pc = "parsed" => results = ExpectedRecords(lines)

\* C2: no Group Record of the output belongs to a header that had no runtime
\* sample between it and the next header or the end of the file.
C2_NoEmptyGroupEmitted ==
    pc = "parsed" =>
        \A n \in 1..Len(results) :
            /\ n <= Cardinality(Headers(lines))
            /\ GroupSamples(lines, n) # <<>>

\* C3: every line that is no header and on which the Runtime Matcher returns a
\* value, a 0.0 included, adds exactly that value, once, to the current sample
\* sequence: the open group holds what the Runtime Matcher returned on the
\* sample lines since its header.
C3_EveryMatchAppended ==
    pc = "for line" =>
        current_runtimes = SamplesIn(lines, LastHeader(lines, idx) + 1, idx)

\* C6 as stated: no line on which the Header Matcher returns a pair is a line
\* on which the Runtime Matcher returns a value.
C6_MatchersExclusive ==
    pc = "for line" =>
        \A i \in 1..idx : IsHeaderLine(lines[i]) => match_runtime(lines[i]) = None

\* C6, amended: parse_file takes no line both as a header and as a sample.  On
\* every line it calls the Header Matcher, then the Runtime Matcher, and only
\* then classifies the line.  When the Header Matcher raises, or the Runtime
\* Matcher does (also on a line on which the Header Matcher returned a pair),
\* parse_file ends with that exception: the line opens no group and no record
\* is added.  Otherwise a line on which the Header Matcher returned a pair ends
\* the group open before it, if any, with its record, and opens that group with
\* no sample, also when the Runtime Matcher returned a value on it; and a line
\* on which it returned no match leaves the open header and the records as they
\* are.
C6_HeaderLineIsHeaderOnly ==
    [][(pc = "for line" /\ idx < Len(lines)) =>
          LET header == match_block_thread_size(lines[idx + 1])
              sample == match_runtime(lines[idx + 1])
          IN  IF header.kind = "raise"
              THEN /\ pc' = "raised"
                   /\ ret' = header
                   /\ UNCHANGED <<current_block_thread_size, current_runtimes, results>>
              ELSE IF sample.kind = "raise"
              THEN /\ pc' = "raised"
                   /\ ret' = sample
                   /\ UNCHANGED <<current_block_thread_size, current_runtimes, results>>
              ELSE IF header.kind = "tuple"
              THEN /\ pc' = "for line"
                   /\ current_block_thread_size' = header
                   /\ current_runtimes' = <<>>
                   /\ results' =
                        IF current_block_thread_size = None THEN results
                        ELSE Append(results,
                                    [block_size  |-> current_block_thread_size.v[1],
                                     thread_size |-> current_block_thread_size.v[2],
                                     gmean       |-> gmean(current_runtimes)])
              ELSE /\ pc' = "for line"
                   /\ current_block_thread_size' = current_block_thread_size
                   /\ results' = results]_vars

\* After a sample, a header line that the runtime pattern matches too has been
\* read: the group (4, 8) is open and holds no sample.
C6_Witness ==
    /\ pc = "for line"
    /\ idx >= 3
    /\ IsSampleLine(lines[idx - 1])
    /\ IsHeaderLine(lines[idx])
    /\ match_runtime(lines[idx]) = [kind |-> "float", v |-> Float(3)]
    /\ current_block_thread_size = [kind |-> "tuple", v |-> <<4, 8>>]
    /\ current_runtimes = <<>>
    /\ Len(results) = 1

-----------------------------------------------------------------------------
(* What the claims say of the grid fill                                    *)

Candidates == {1, 2, 4, 8, 16, 32, 64, 128, 256}

IsValid(r) == r.block_size \in Candidates /\ r.thread_size \in Candidates

\* The records among rs of the block size at place i and the thread size at
\* place j of the candidates in increasing order (places from 0).
HitsOf(rs, i, j) ==
    {k \in 1..Len(rs) : rs[k].block_size = Pow(2, i) /\ rs[k].thread_size = Pow(2, j)}

\* The whole hundredths in the double g, not below 0.0.
Hundredths(g) ==
    LET c == MulAdd(g.m, 100, 0)
    IN  IF g.e >= 0 THEN Shl(c, g.e) ELSE Shr(c, -g.e)

\* The hundredth h / 100 is at most half a hundredth away from the double g:
\* 2h - 1 <= 200 g <= 2h + 1.
IsNear(g, h) ==
    LET s  == IF g.e < 0 THEN -g.e ELSE 0
        x  == Shl(MulAdd(g.m, 200, 0), g.e + s)
        lo == IF h = <<>> THEN <<>> ELSE Shl(Sub(MulAdd(h, 2, 0), <<1>>), s)
        hi == Shl(MulAdd(h, 2, 1), s)
    IN  ~Less(x, lo) /\ ~Less(hi, x)

\* Cell c is the mean g to two decimals: the double nearest a whole number of
\* hundredths that is at most half a hundredth away from g; nan for nan, inf
\* for inf, and for the term of a mean the term of its rounding.
IsRounded(c, g) ==
    IF IsTerm(g) THEN c = [float_format_2f |-> g]
    ELSE IF g.nan THEN c = NaN
    ELSE IF g.inf THEN c = Inf
    ELSE \E h \in {Hundredths(g), MulAdd(Hundredths(g), 1, 1)} :
            IsNear(g, h) /\ c = Ratio(h, <<25>>, -2)

\* Cell [i, j] holds the rounded mean of the last record of rs for it, and -1
\* when rs has none.
CellHolds(grid, rs, i, j) ==
    LET hits == HitsOf(rs, i, j)
    IN  IF hits = {} THEN grid[i][j] = Sentinel
        ELSE IsRounded(grid[i][j], rs[CHOOSE k \in hits : \A m \in hits : m <= k].gmean)

\* C4: once the fill has gone through records that are all among the
\* candidates, every cell holds the rounded mean of the last record for it, or
\* -1; a record (2, 4) is at [1, 2]; a duplicate pair raises no error.
C4_LastRecordPerCell ==
    /\ pc = "shown" =>
         /\ \A i \in 0..8 : \A j \in 0..8 : CellHolds(runtimes, results, i, j)
         /\ \A k \in 1..Len(results) :
              results[k].block_size = 2 /\ results[k].thread_size = 4
                => runtimes[1][2] # Sentinel
    /\ (\A k \in 1..Len(results) : IsValid(results[k])) => pc # "raised"

\* Three records went in: (2, 4) with the mean 0.024999999999999998, (256, 4)
\* with the mean 0.025 and (2, 4) again with the mean 0.125; the cells hold 0.12
\* and 0.03.
C4_Witness ==
    /\ pc = "shown"
    /\ Len(results) = 3
    /\ results[1].block_size = 2 /\ results[1].thread_size = 4
    /\ results[2].block_size = 256 /\ results[2].thread_size = 4
    /\ results[3].block_size = 2 /\ results[3].thread_size = 4
    /\ results[1].gmean = Dyadic(<<6553, 13107, 26214, 204>>, -58)
    /\ results[2].gmean = Dyadic(<<19661, 6553, 13107, 102>>, -57)
    /\ results[3].gmean = Dyadic(<<1>>, -3)
    /\ runtimes[1][2] = Dyadic(<<9175, 31457, 23592, 30>>, -53)
    /\ runtimes[8][2] = Dyadic(<<9175, 31457, 23592, 30>>, -55)

\* The value of a record that is not a candidate: the block size if it is
\* none, the thread size otherwise.
Offending(r) == IF r.block_size \notin Candidates THEN r.block_size ELSE r.thread_size

\* C5: a record with a size that is no candidate makes the fill fail with a
\* ValueError that names the size, before anything is drawn; the fill never
\* goes past such a record and writes it to no cell.
C5_UnknownSizeAborts ==
    /\ (\E k \in 1..Len(results) : ~IsValid(results[k])) => pc # "shown"
    /\ \A k \in 1..done : IsValid(results[k])
    /\ pc = "raised" =>
         /\ done < Len(results)
         /\ ~IsValid(results[done + 1])
         /\ ret = Raise("ValueError", Offending(results[done + 1]))
    /\ \A i \in 0..8 : \A j \in 0..8 :
         runtimes[i][j] # Sentinel =>
            \E k \in 1..done : IsValid(results[k]) /\ k \in HitsOf(results, i, j)

\* After a good record, a record with block size 3 has stopped the program.
C5_Witness ==
    /\ pc = "raised"
    /\ done = 1
    /\ results[2].block_size = 3
    /\ ret = Raise("ValueError", 3)

\* C10: when the fill stops at record k, record k has written no cell, also
\* when only its thread size is no candidate; the cells of the records before k
\* hold their values, every other cell holds -1, and no record after k is taken.
C10_PartialGridOnAbort ==
    /\ \A k \in 1..done : IsValid(results[k])
    /\ Len(stdout) = done
    /\ pc = "raised" =>
         /\ done < Len(results)
         /\ ~IsValid(results[done + 1])
         /\ \A i \in 0..8 : \A j \in 0..8 :
              CellHolds(runtimes, SubSeq(results, 1, done), i, j)
         /\ ~ENABLED FillStep
         /\ ~ENABLED Render

\* The third record has a good block size, 2, and a thread size that is no
\* candidate, 5; the first two wrote their cells and a record is left behind it.
C10_Witness ==
    /\ pc = "raised"
    /\ done = 2
    /\ Len(results) = 3
    /\ results[1].block_size = 256 /\ results[1].thread_size = 4
    /\ results[2].block_size = 2 /\ results[2].thread_size = 4
    /\ results[3].block_size = 2 /\ results[3].thread_size = 5
    /\ ret = Raise("ValueError", 5)
    /\ runtimes[8][2] # Sentinel
    /\ runtimes[1][2] # Sentinel

====
